---- MODULE Spec2Model ----
(***************************************************************************)
(* Model of the go-mcp analyzer: the loader adapter, the abstraction       *)
(* extractor, the call extractor, the satisfaction finder and the          *)
(* orchestrator AnalysisService.AnalyzeProject.                            *)
(*                                                                         *)
(* A loaded snapshot is a list of package records.  Hash-map iteration     *)
(* (interfacesMap, pkg.Imports, ssautil.AllFunctions, typeToInterfaceMap)  *)
(* is a nondeterministic choice of a permutation.                          *)
(***************************************************************************)
EXTENDS Integers, Sequences, FiniteSets, TLC

VARIABLES
    snapshot,          \* what packages.Load yields for the analysed tree
    aliasMaterialised, \* build setting: aliases are types.Alias objects
    run,               \* number of the current AnalyzeProject run
    pc,                \* position of AnalyzeProject
    pkgs,              \* local pkgs of AnalyzeProject
    interfacesMap,     \* key -> datamodel.Interface
    callsByPackage,    \* package index -> list of call sites
    ssaFset,           \* position table returned by AnalyzeCalls
    fsetPassed,        \* position table handed to FindImplementations
    invoked,           \* collaborators invoked in this run, in order
    outcomes,          \* what each collaborator answered (same in every run)
    result,            \* the returned (*ProjectAnalysis, error)
    firstReport,       \* the result of run 1
    finderCalls,       \* direct calls made on the finder (SpecFinder)
    unit,              \* the input of an operation exercised on its own, and its answer
    cli                \* the command-line program: position, streams, exit status

vars == <<snapshot, aliasMaterialised, run, pc, pkgs, interfacesMap,
          callsByPackage, ssaFset, fsetPassed, invoked, outcomes, result,
          firstReport, finderCalls, unit, cli>>

\* ---------------------------------------------------------------- bounds
MaxPkgs == 2
MaxFinderCalls == 2
MaxFields == 2
MaxMembers == 3
MaxInstrs == 2
\* the longest path handed to the loader
MaxPathLen == 6

\* ------------------------------------------------------------ generic
Range(s) == {s[i] : i \in DOMAIN s}

Perms(S) ==
    {s \in [1..Cardinality(S) -> S] : \A i, j \in DOMAIN s : s[i] = s[j] => i = j}

RECURSIVE Flatten(_)
Flatten(ss) == IF ss = <<>> THEN <<>> ELSE Head(ss) \o Flatten(Tail(ss))

\* ------------------------------------------------------- positions
NilFset == 0

ModuleDir == "/abs/root"
CacheDir == "/cache"

File(root, rel) == [root |-> root, rel |-> rel]
EmptyFilename == File("", "")

\* datamodel.NewLocation: the filename, the line and the column of a
\* token.Position; the column of a valid position is positive (1 here), the
\* column of the zero position is 0
NewLocation(file, line) ==
    [Filename |-> file, Line |-> line, Column |-> IF line = 0 THEN 0 ELSE 1]
NoLocation == NewLocation(EmptyFilename, 0)

\* ------------------------------------------------------- syntax trees and formatters
\* Strings built by the formatters are lists of tokens, so that a prefix or a
\* parenthesis can be told apart; strings.Join(parts, sep) is Join.
\* A Go slice is nil or a list.
NilSlice == [isNil |-> TRUE, elems |-> <<>>]
Slice(elems) == [isNil |-> FALSE, elems |-> elems]

\* append(s, xs...): appending nothing leaves a nil slice nil
AppendAll(s, xs) == IF xs = <<>> THEN s ELSE Slice(s.elems \o xs)

\* ast.Expr nodes of a type expression
Ident(name) == [kind |-> "Ident", name |-> name]
StarExpr(x) == [kind |-> "Star", x |-> x]
SelectorExpr(x, sel) == [kind |-> "Selector", xsel |-> x, sel |-> sel]
Ellipsis(elt) == [kind |-> "Ellipsis", elt |-> elt]

\* ast.Field, ast.FieldList and ast.FuncType
Field(names, type) == [Names |-> names, Type |-> type]
FieldList(list) == [isNil |-> FALSE, List |-> list]
NilFieldList == [isNil |-> TRUE, List |-> <<>>]
FuncType(params, results) == [kind |-> "Func", Params |-> params, Results |-> results]

RECURSIVE Join(_, _)
Join(parts, sep) ==
    IF parts = <<>> THEN <<>>
    ELSE IF Len(parts) = 1 THEN parts[1]
    ELSE parts[1] \o <<sep>> \o Join(Tail(parts), sep)

RECURSIVE ExprToString(_, _)
RECURSIVE FormatFieldList(_, _)
RECURSIVE FormatFuncType(_, _)

\* ExprToString: types.TypeString when the type table knows the expression
\* (typed), the syntax-based rendering otherwise
ExprToString(expr, typed) ==
    CASE expr.kind = "Ident" -> <<expr.name>>
      [] expr.kind = "Star" -> <<"*">> \o ExprToString(expr.x, typed)
      [] expr.kind = "Selector" -> ExprToString(expr.xsel, typed) \o <<".", expr.sel>>
      [] expr.kind = "Ellipsis" ->
            (IF typed THEN <<"[]">> ELSE <<"...">>) \o ExprToString(expr.elt, typed)
      [] expr.kind = "Func" -> <<"func">> \o FormatFuncType(expr, typed)

\* FormatFieldList: one part per field, "names type" or "type"
FormatFieldList(list, typed) ==
    IF list.isNil THEN NilSlice
    ELSE AppendAll(NilSlice,
           [i \in DOMAIN list.List |->
              LET f == list.List[i]
                  typeStr == ExprToString(f.Type, typed)
              IN IF Len(f.Names) > 0
                 THEN Join([n \in DOMAIN f.Names |-> <<f.Names[n]>>], ", ")
                      \o <<" ">> \o typeStr
                 ELSE typeStr])

\* FormatFuncType: "(params)" followed by the results
FormatFuncType(ft, typed) ==
    LET params == FormatFieldList(ft.Params, typed)
        results == FormatFieldList(ft.Results, typed)
        s == <<"(">> \o Join(params.elems, ", ") \o <<")">>
        resultStr == Join(results.elems, ", ")
        isSingleUnnamed == /\ ~ft.Results.isNil
                           /\ Len(ft.Results.List) = 1
                           /\ Len(ft.Results.List[1].Names) = 0
    IN IF Len(results.elems) > 0
       THEN IF isSingleUnnamed THEN s \o <<" ">> \o resultStr
            ELSE s \o <<" ", "(">> \o resultStr \o <<")">>
       ELSE s

\* FormatMethodSignature
FormatMethodSignature(name, ft, typed) == <<name>> \o FormatFuncType(ft, typed)

\* IsPointerType: (true, the pointed-to type) for *T, (false, "") otherwise
IsPointerType(expr, typed) ==
    IF expr.kind = "Star"
    THEN [isPointer |-> TRUE, base |-> ExprToString(expr.x, typed)]
    ELSE [isPointer |-> FALSE, base |-> <<>>]

\* the parameters one field contributes: one per name, one if unnamed
ParametersOfField(f, typed) ==
    LET ptr == IsPointerType(f.Type, typed)
        typeName == IF ptr.isPointer THEN ptr.base ELSE ExprToString(f.Type, typed)
    IN IF Len(f.Names) > 0
       THEN [n \in DOMAIN f.Names |->
               [Name |-> f.Names[n], Type |-> typeName, IsPointer |-> ptr.isPointer]]
       ELSE << [Name |-> "", Type |-> typeName, IsPointer |-> ptr.isPointer] >>

\* ExtractParameters
ExtractParameters(ft, typed) ==
    IF ft.Params.isNil THEN Slice(<<>>)
    ELSE AppendAll(NilSlice,
           Flatten([i \in DOMAIN ft.Params.List |->
                      ParametersOfField(ft.Params.List[i], typed)]))

\* the type appended once per field, however many names it declares
ReturnTypesOncePerField(f, typed) == << ExprToString(f.Type, typed) >>

\* the return types one result field contributes: the type once per name
ReturnTypesOfField(f, typed) ==
    IF Len(f.Names) > 0
    THEN [n \in DOMAIN f.Names |-> ExprToString(f.Type, typed)]
    ELSE << ExprToString(f.Type, typed) >>

\* ExtractReturnTypes
ExtractReturnTypes(ft, typed) ==
    IF ft.Results.isNil THEN Slice(<<>>)
    ELSE AppendAll(NilSlice,
           Flatten([i \in DOMAIN ft.Results.List |->
                      ReturnTypesOfField(ft.Results.List[i], typed)]))

\* the placeholder signature of a method whose type is no function type
NonFuncSignature(name) == <<name, "(", "...", ")", " // Analysis Error: Non-FuncType">>

\* AnalyzeInterfaces: the datamodel.Method of one named field of an interface
NewMethod(f, typed, loc) ==
    IF f.Type.kind = "Func"
    THEN [Name |-> f.Names[1], Location |-> loc,
          Signature |-> FormatMethodSignature(f.Names[1], f.Type, typed),
          Parameters |-> ExtractParameters(f.Type, typed),
          ReturnTypes |-> ExtractReturnTypes(f.Type, typed)]
    ELSE [Name |-> f.Names[1], Location |-> loc,
          Signature |-> NonFuncSignature(f.Names[1]),
          Parameters |-> Slice(<<>>), ReturnTypes |-> Slice(<<>>)]

\* AnalyzeInterfaces: the methods of an interface type, in source order; the
\* i-th field of the interface stands i lines below its name
ExtractMethods(fields, typed, file, line) ==
    LET idx == SelectSeq([i \in DOMAIN fields |-> i],
                         LAMBDA i : Len(fields[i].Names) > 0)
    IN Slice([n \in DOMAIN idx |->
                NewMethod(fields[idx[n]], typed, NewLocation(file, line + idx[n]))])

\* AnalyzeInterfaces: the embeds of an interface type, in source order
ExtractEmbeds(fields, typed) ==
    LET es == SelectSeq(fields, LAMBDA f :
                  /\ Len(f.Names) = 0
                  /\ ExprToString(f.Type, typed) \notin {<<>>, <<"?">>})
    IN Slice([n \in DOMAIN es |-> ExprToString(es[n].Type, typed)])

\* ------------------------------------------------------- the type universe
\* One entry of a package scope (a *types.TypeName) with its TypeSpec.
\*   under   "interface" | "struct"       the underlying type
\*   alias   the identity of the aliased type, "" for a defined type
\*   vm, pm  methods with value / pointer receivers (interface: its methods)
\*   astIface the TypeSpec's type expression is an ast.InterfaceType
\*   pos     "ast"  the TypeSpec is found and P resolves its name
\*           "decl" only typeName.Pos() resolves through P
\*           "none" P resolves neither
\*   native  pkg.Fset resolves typeName.Pos()
\*   fields  the fields of the interface type (methods and embeds)
Decl(name, tid, under, alias, vm, pm, pos, native, file, line) ==
    [name |-> name, tid |-> tid, under |-> under, alias |-> alias,
     vm |-> vm, pm |-> pm, astIface |-> (under = "interface" /\ alias = ""),
     pos |-> pos, native |-> native, file |-> file, line |-> line,
     fields |-> <<>>]

\* the declaration of an interface type with its fields
WithFields(d, fields) == [d EXCEPT !.fields = fields]

\* the method m() of the abstraction I
FieldM == Field(<<"m">>, FuncType(FieldList(<<>>), NilFieldList))

\* One call-shaped SSA instruction.
Instr(kind, invoke, static, value, posOK, line) ==
    [kind |-> kind, invoke |-> invoke, static |-> static, value |-> value,
     posOK |-> posOK, line |-> line]

Func(name, file, instrs) == [name |-> name, file |-> file, instrs |-> instrs]

FileA == File(ModuleDir, "p/a.go")
FileATest == File(ModuleDir, "p/a_test.go")
FileQ == File(ModuleDir, "q/q.go")
FileS == File(ModuleDir, "s/s.go")
FileR == File(ModuleDir, "r/r.go")
FileMain == File(CacheDir, "p.test/_testmain.go")

\* package p: the empty abstraction E, the abstraction I {m}, T with a value
\* method m, U with a pointer method m
PkgP ==
    [ID |-> "p", PkgPath |-> "p", Name |-> "p", Types |-> TRUE, Syntax |-> TRUE,
     Errors |-> FALSE, GoFiles |-> <<FileA>>,
     EmbedFiles |-> <<"/abs/root/p/data.txt">>, EmbedPatterns |-> <<"*.txt">>,
     Imports |-> {"q"},
     scope |-> << Decl("E", "p.E", "interface", "", {}, {}, "ast", TRUE, FileA, 2),
                  WithFields(Decl("I", "p.I", "interface", "", {"m"}, {}, "ast", TRUE, FileA, 3),
                             <<FieldM>>),
                  Decl("T", "p.T", "struct", "", {"m"}, {}, "ast", TRUE, FileA, 5),
                  Decl("U", "p.U", "struct", "", {}, {"m"}, "ast", TRUE, FileA, 7) >>,
     locals |-> <<>>,
     funcs |-> << Func("p.f", FileA,
                       << Instr("Call", FALSE, TRUE, TRUE, TRUE, 10),
                          Instr("Call", TRUE, FALSE, TRUE, TRUE, 11),
                          Instr("Go", FALSE, TRUE, TRUE, TRUE, 12),
                          Instr("Defer", FALSE, TRUE, TRUE, TRUE, 13) >>),
                  Func("p.g", FileA,
                       << Instr("Call", FALSE, FALSE, TRUE, TRUE, 20),
                          Instr("Call", FALSE, TRUE, TRUE, FALSE, 0) >>) >>]

\* package p built for its tests: the same import path and declarations, its
\* own type objects, one more file and one more import
PkgPTest ==
    [ID |-> "p [p.test]", PkgPath |-> "p", Name |-> "p", Types |-> TRUE,
     Syntax |-> TRUE, Errors |-> FALSE, GoFiles |-> <<FileA, FileATest>>,
     EmbedFiles |-> <<"/abs/root/p/data.txt">>, EmbedPatterns |-> <<"*.txt">>,
     Imports |-> {"q", "testing"},
     scope |-> << Decl("E", "pt.E", "interface", "", {}, {}, "ast", TRUE, FileA, 2),
                  WithFields(Decl("I", "pt.I", "interface", "", {"m"}, {}, "ast", TRUE, FileA, 3),
                             <<FieldM>>),
                  Decl("T", "pt.T", "struct", "", {"m"}, {}, "ast", TRUE, FileA, 5),
                  Decl("U", "pt.U", "struct", "", {}, {"m"}, "ast", TRUE, FileA, 7) >>,
     locals |-> <<>>,
     funcs |-> << Func("p.TestF", FileATest,
                       << Instr("Call", FALSE, TRUE, TRUE, TRUE, 4) >>) >>]

\* package q: an alias B of N, a type N without methods, V resolved only
\* through its declaration position, W that P does not resolve at all; the
\* interface L is declared inside a function body (a function that makes no
\* calls), so L is not in the package scope
PkgQ ==
    [ID |-> "q", PkgPath |-> "q", Name |-> "q", Types |-> TRUE, Syntax |-> TRUE,
     Errors |-> FALSE, GoFiles |-> <<FileQ>>,
     EmbedFiles |-> <<>>, EmbedPatterns |-> <<>>, Imports |-> {},
     scope |-> << Decl("B", "q.B", "struct", "q.N", {}, {}, "ast", TRUE, FileQ, 9),
                  Decl("N", "q.N", "struct", "", {}, {}, "ast", TRUE, FileQ, 5),
                  Decl("V", "q.V", "struct", "", {"m"}, {}, "decl", TRUE, FileQ, 6),
                  Decl("W", "q.W", "struct", "", {"m"}, {}, "none", FALSE, FileQ, 7) >>,
     locals |-> << WithFields(Decl("L", "q.L", "interface", "", {"m"}, {},
                                   "ast", TRUE, FileQ, 12), <<FieldM>>) >>, funcs |-> <<>>]

\* package r: failed to load (no types, errors reported)
PkgR ==
    [ID |-> "r", PkgPath |-> "r", Name |-> "r", Types |-> FALSE, Syntax |-> FALSE,
     Errors |-> TRUE, GoFiles |-> <<FileR>>,
     EmbedFiles |-> <<>>, EmbedPatterns |-> <<>>, Imports |-> {},
     scope |-> <<>>, locals |-> <<>>, funcs |-> <<>>]

\* package s: no type information but no reported error either
PkgS ==
    [ID |-> "s", PkgPath |-> "s", Name |-> "s", Types |-> FALSE, Syntax |-> TRUE,
     Errors |-> FALSE, GoFiles |-> <<FileS>>,
     EmbedFiles |-> <<>>, EmbedPatterns |-> <<>>, Imports |-> {"q"},
     scope |-> <<>>, locals |-> <<>>, funcs |-> <<>>]

\* the generated test main package: its file lies in the build cache
PkgMain ==
    [ID |-> "p.test", PkgPath |-> "p.test", Name |-> "main", Types |-> TRUE,
     Syntax |-> TRUE, Errors |-> FALSE, GoFiles |-> <<FileMain>>,
     EmbedFiles |-> <<>>, EmbedPatterns |-> <<>>,
     Imports |-> {"p"},
     scope |-> <<>>,
     locals |-> <<>>,
     funcs |-> << Func("p.test.main", FileMain,
                       << Instr("Call", FALSE, TRUE, TRUE, TRUE, 30) >>) >>]

Catalogue == {PkgP, PkgPTest, PkgQ, PkgR, PkgS, PkgMain}

\* Lists of at most MaxPkgs different packages, in any order.
Snapshots ==
    UNION {{s \in [1..n -> Catalogue] : \A i, j \in 1..n : s[i] = s[j] => i = j}
           : n \in 0..MaxPkgs}

\* ------------------------------------------------------- loader adapter
\* GoPackagesLoader.Load: keep the packages with types or without errors
ValidPkgs(raw) == SelectSeq(raw, LAMBDA p : p.Types \/ ~p.Errors)

\* GoPackagesLoader.Load after packages.Load answered (raw, loadErr)
Load(raw, loadErr) ==
    IF loadErr
    THEN [pkgs |-> <<>>, err |-> TRUE]
    ELSE IF Len(ValidPkgs(raw)) = 0 /\ Len(raw) > 0
         THEN [pkgs |-> <<>>, err |-> TRUE]
         ELSE [pkgs |-> ValidPkgs(raw), err |-> FALSE]

\* ------------------------------------------------------- abstraction extractor
EmptyMap == [k \in {} |-> {}]

MapKey(pkgPath, name) == pkgPath \o "." \o name

\* the nil *types.Interface handle
NoType == ""

\* the datamodel.Interface built for one TypeSpec (position from pkg.Fset)
NewInterface(pkg, d) ==
    [Name |-> d.name, PackageName |-> pkg.Name, PackagePath |-> pkg.PkgPath,
     Location |-> IF d.native THEN NewLocation(d.file, d.line) ELSE NoLocation,
     Methods |-> ExtractMethods(d.fields, pkg.Types, d.file, d.line),
     Embeds |-> ExtractEmbeds(d.fields, pkg.Types),
     Implementations |-> <<>>, ImplNil |-> FALSE, UnderlyingType |-> NoType]

\* the place of a file in pkg.Syntax (0 when it is no file of the package)
FileIndex(pkg, file) ==
    IF \E i \in DOMAIN pkg.GoFiles : pkg.GoFiles[i] = file
    THEN CHOOSE i \in DOMAIN pkg.GoFiles : pkg.GoFiles[i] = file
    ELSE 0

\* ast.Inspect reaches a before b: earlier file, or earlier in the same file
VisitedBefore(pkg, a, b) ==
    \/ FileIndex(pkg, a.file) < FileIndex(pkg, b.file)
    \/ FileIndex(pkg, a.file) = FileIndex(pkg, b.file) /\ a.line < b.line

\* the TypeSpecs of a package that define an abstraction, in the order in
\* which the walk over pkg.Syntax reaches them; the walk also enters function
\* bodies
InterfaceSpecs(pkg) ==
    SortSeq(SelectSeq(pkg.scope \o pkg.locals,
                      LAMBDA d : d.astIface /\ d.under = "interface"),
            LAMBDA a, b : VisitedBefore(pkg, a, b))

\* the entry stored whether or not the key is taken
StoreInterfaceOverwrite(m, k, iface) == (k :> iface) @@ m

\* interfaces[mapKey] = iface unless the key exists
StoreInterface(m, k, iface) == IF k \in DOMAIN m THEN m ELSE m @@ (k :> iface)

RECURSIVE StoreInterfaces(_, _, _)
StoreInterfaces(m, pkg, ds) ==
    IF ds = <<>> THEN m
    ELSE LET d == Head(ds)
         IN StoreInterfaces(
                StoreInterface(m, MapKey(pkg.PkgPath, d.name), NewInterface(pkg, d)),
                pkg, Tail(ds))

RECURSIVE AnalyzeInterfacesFrom(_, _)
AnalyzeInterfacesFrom(m, ps) ==
    IF ps = <<>> THEN m
    ELSE LET pkg == Head(ps)
         IN AnalyzeInterfacesFrom(
                IF ~pkg.Types \/ ~pkg.Syntax THEN m
                ELSE StoreInterfaces(m, pkg, InterfaceSpecs(pkg)),
                Tail(ps))

\* ASTInterfaceAnalyzer.AnalyzeInterfaces
AnalyzeInterfaces(ps) == AnalyzeInterfacesFrom(EmptyMap, ps)

\* ------------------------------------------------------- satisfaction finder
\* the identity of typeName.Type(): an alias that is not materialised is the
\* aliased type itself
TypeOf(d, mat) == IF d.alias # "" /\ ~mat THEN d.alias ELSE d.tid

\* implementingType.(*types.Named) succeeds
IsNamed(d, mat) == ~(d.alias # "" /\ mat)

\* the method set of the pointer type: empty for a pointer to an interface
PtrMethodSet(d) == IF d.under = "interface" THEN {} ELSE d.vm \cup d.pm

\* types.Implements(T, iface) and types.Implements(*T, iface)
Implements(d, isPointer, methods) ==
    methods \subseteq (IF isPointer THEN PtrMethodSet(d) ELSE d.vm)

\* findPackage: the index of the first package with that import path, or 0
findPackage(ps, path) ==
    IF \E i \in DOMAIN ps : ps[i].PkgPath = path
    THEN CHOOSE i \in DOMAIN ps :
            /\ ps[i].PkgPath = path
            /\ \A j \in DOMAIN ps : ps[j].PkgPath = path => i <= j
    ELSE 0

HasName(scope, name) == \E i \in DOMAIN scope : scope[i].name = name
Lookup(scope, name) ==
    scope[CHOOSE i \in DOMAIN scope : scope[i].name = name]

\* an abstraction is mapped to its types.Interface
IsMapped(ps, iface) ==
    LET i == findPackage(ps, iface.PackagePath)
    IN /\ i # 0
       /\ ps[i].Types
       /\ HasName(ps[i].scope, iface.Name)
       /\ Lookup(ps[i].scope, iface.Name).under = "interface"

MappedKeys(ps, ifs) == {k \in DOMAIN ifs : IsMapped(ps, ifs[k])}

\* the method set of the types.Interface an abstraction is mapped to
MappedMethods(ps, iface) ==
    Lookup(ps[findPackage(ps, iface.PackagePath)].scope, iface.Name).vm

\* addImplementation, location finding: the position of the type or none
ResolveLocation(d, pkg, fset) ==
    IF fset # NilFset
    THEN IF d.pos = "ast" /\ pkg.Syntax THEN NewLocation(d.file, d.line)
         ELSE IF d.pos \in {"ast", "decl"} THEN NewLocation(d.file, d.line)
         ELSE NoLocation
    ELSE IF pkg.Types /\ d.native THEN NewLocation(d.file, d.line)
         ELSE NoLocation

\* the duplicate check looking at the last entry only
IsDuplicateOfLast(impls, typeName, pkgPath, isPointer) ==
    /\ impls # <<>>
    /\ impls[Len(impls)].TypeName = typeName
    /\ impls[Len(impls)].PackagePath = pkgPath
    /\ impls[Len(impls)].IsPointer = isPointer

\* addImplementation, duplicate check
IsDuplicate(impls, typeName, pkgPath, isPointer) ==
    \E i \in DOMAIN impls :
        /\ impls[i].TypeName = typeName
        /\ impls[i].PackagePath = pkgPath
        /\ impls[i].IsPointer = isPointer

\* the new satisfier put in front of the list instead of at its end
addImplementationInFront(iface, d, pkg, isPointer, fset) ==
    LET implLoc == ResolveLocation(d, pkg, fset)
    IN IF implLoc.Filename = EmptyFilename THEN iface
       ELSE IF IsDuplicate(iface.Implementations, d.name, pkg.PkgPath, isPointer)
       THEN iface
       ELSE [iface EXCEPT
               !.Implementations =
                   << [TypeName |-> d.name, PackagePath |-> pkg.PkgPath,
                       PackageName |-> pkg.Name, IsPointer |-> isPointer,
                       Location |-> implLoc] >> \o @,
               !.ImplNil = FALSE]

\* the satisfier appended whether or not a position was found
addImplementationUnlocated(iface, d, pkg, isPointer, fset) ==
    IF IsDuplicate(iface.Implementations, d.name, pkg.PkgPath, isPointer)
    THEN iface
    ELSE [iface EXCEPT
            !.Implementations = Append(@,
                [TypeName |-> d.name, PackagePath |-> pkg.PkgPath,
                 PackageName |-> pkg.Name, IsPointer |-> isPointer,
                 Location |-> ResolveLocation(d, pkg, fset)]),
            !.ImplNil = FALSE]

\* addImplementation(iface, typeName, pkg, isPointer, fset)
addImplementation(iface, d, pkg, isPointer, fset) ==
    LET implLoc == ResolveLocation(d, pkg, fset)
    IN IF implLoc.Filename = EmptyFilename THEN iface
       ELSE IF IsDuplicate(iface.Implementations, d.name, pkg.PkgPath, isPointer)
       THEN iface
       ELSE [iface EXCEPT
               !.Implementations = Append(@,
                   [TypeName |-> d.name, PackagePath |-> pkg.PkgPath,
                    PackageName |-> pkg.Name, IsPointer |-> isPointer,
                    Location |-> implLoc]),
               !.ImplNil = FALSE]

\* FindImplementations, mapping loop: the types.Interface of every mapped
\* abstraction is stored back in its datamodel.Interface
StoreUnderlyingTypes(ps, ifs) ==
    [k \in DOMAIN ifs |->
       IF IsMapped(ps, ifs[k])
       THEN [ifs[k] EXCEPT !.UnderlyingType =
               Lookup(ps[findPackage(ps, ifs[k].PackagePath)].scope, ifs[k].Name).tid]
       ELSE ifs[k]]

\* the pointer form checked only when the value form does not satisfy
SatisfiedFormsElseIf(d, methods) ==
    IF Implements(d, FALSE, methods) THEN <<FALSE>>
    ELSE IF Implements(d, TRUE, methods) THEN <<TRUE>>
    ELSE <<>>

\* the forms of T for which addImplementation is called, in call order
SatisfiedForms(d, methods) ==
    (IF Implements(d, FALSE, methods) THEN <<FALSE>> ELSE <<>>)
    \o (IF Implements(d, TRUE, methods) THEN <<TRUE>> ELSE <<>>)

RECURSIVE AddForms(_, _, _, _, _)
AddForms(iface, forms, d, pkg, fset) ==
    IF forms = <<>> THEN iface
    ELSE AddForms(addImplementation(iface, d, pkg, Head(forms), fset),
                  Tail(forms), d, pkg, fset)

\* the loop over typeToInterfaceMap for one type name
RECURSIVE CheckInterfaces(_, _, _, _, _, _)
CheckInterfaces(ifs, order, d, pkg, fset, ps) ==
    IF order = <<>> THEN ifs
    ELSE LET k == Head(order)
         IN CheckInterfaces(
                [ifs EXCEPT ![k] = AddForms(@,
                    SatisfiedForms(d, MappedMethods(ps, ifs[k])), d, pkg, fset)],
                Tail(order), d, pkg, fset, ps)

\* a type name is skipped when its type was processed before
AlreadyProcessed(processed, d, mat) == TypeOf(d, mat) \in processed

\* the loop over scope.Names() of one package; st = [ifs, processed]
RECURSIVE VisitScope(_, _, _, _, _, _, _)
VisitScope(st, ds, pkg, fset, order, ps, mat) ==
    IF ds = <<>> THEN st
    ELSE LET d == Head(ds)
         IN VisitScope(
                IF AlreadyProcessed(st.processed, d, mat) THEN st
                ELSE [ifs |-> CheckInterfaces(st.ifs, order, d, pkg, fset, ps),
                      processed |-> st.processed \cup {TypeOf(d, mat)}
                          \cup (IF IsNamed(d, mat)
                                THEN {"*" \o TypeOf(d, mat)} ELSE {})],
                Tail(ds), pkg, fset, order, ps, mat)

\* the loop over the packages
RECURSIVE VisitPackages(_, _, _, _, _, _)
VisitPackages(st, rest, fset, order, ps, mat) ==
    IF rest = <<>> THEN st
    ELSE LET pkg == Head(rest)
         IN VisitPackages(
                IF ~pkg.Types THEN st
                ELSE VisitScope(st, pkg.scope, pkg, fset, order, ps, mat),
                Tail(rest), fset, order, ps, mat)

\* TypeBasedImplementationFinder.FindImplementations; order is the order in
\* which typeToInterfaceMap is iterated
FindImplementations(ps, ifs, fset, order, mat) ==
    VisitPackages([ifs |-> StoreUnderlyingTypes(ps, ifs), processed |-> {}],
                  ps, fset, order, ps, mat).ifs

\* ------------------------------------------------------- call extractor
\* ssautil.Packages builds a package for every listed package with types;
\* the lowered universe also holds a function of a dependency that is not in
\* the list (package index 0)
DepFunc ==
    [pkg |-> 0, fn |-> Func("io.Copy", File("/goroot", "io/io.go"),
                            << Instr("Call", FALSE, TRUE, TRUE, TRUE, 400) >>)]

\* ssautil.AllFunctions(prog)
AllFunctions(ps) ==
    {DepFunc} \cup
    UNION {{[pkg |-> i, fn |-> f] : f \in Range(ps[i].funcs)} :
             i \in {j \in DOMAIN ps : ps[j].Types}}

\* ssaToOrigMap: the lowered package of a function is mapped back to a
\* listed package (by list index)
IsMappedBack(ps, f) == f.pkg \in DOMAIN ps /\ ps[f.pkg].Types

\* the flavour given to one call instruction
CallType(instr) ==
    CASE instr.kind = "Call" ->
            IF instr.invoke THEN "Interface"
            ELSE IF instr.static THEN "Static"
            ELSE IF instr.value THEN "Dynamic"
            ELSE "Static"
      [] instr.kind = "Go" -> "Go"
      [] instr.kind = "Defer" -> "Defer"

\* the callee description given to one call instruction
CalleeDesc(instr) ==
    IF instr.kind = "Call" /\ instr.invoke
    THEN IF instr.value THEN "Interface method" ELSE "Unknown Interface Call"
    ELSE IF instr.static THEN "callee"
    ELSE IF instr.value THEN "Dynamic via"
    ELSE CASE instr.kind = "Call" -> "Unknown Static/Dynamic Call"
           [] instr.kind = "Go" -> "Unknown Go Callee"
           [] instr.kind = "Defer" -> "Unknown Defer Callee"

\* the type switch on the concrete type of a CallInstruction: *ssa.Call,
\* *ssa.Go and *ssa.Defer are handled, any other type takes the default
\* branch and is passed over
IsHandled(instr) == instr.kind \in {"Call", "Go", "Defer"}

\* the call sites of one function, block by block in instruction order: one
\* per handled instruction with a valid position
CallsOfFunc(f) ==
    LET is == SelectSeq(f.fn.instrs, LAMBDA x : x.posOK /\ IsHandled(x))
    IN [n \in DOMAIN is |->
          [CallerFuncDesc |-> f.fn.name, CalleeDesc |-> CalleeDesc(is[n]),
           CallType |-> CallType(is[n]),
           Location |-> NewLocation(f.fn.file, is[n].line)]]

\* the same list when a lowered package is matched with the listed package
\* at its position among the lowered packages only
CallsOfPackageByPosition(ps, order, i) ==
    Flatten([n \in DOMAIN order |->
               IF /\ IsMappedBack(ps, order[n])
                  /\ Cardinality({k \in 1..order[n].pkg : ps[k].Types}) = i
               THEN CallsOfFunc(order[n]) ELSE <<>>])

\* the list built for package i when the functions are visited in order
CallsOfPackage(ps, order, i) ==
    Flatten([n \in DOMAIN order |->
               IF order[n].pkg = i /\ IsMappedBack(ps, order[n])
               THEN CallsOfFunc(order[n]) ELSE <<>>])

\* SSACallGraphAnalyzer.AnalyzeCalls; order is the order in which the function
\* set is iterated, table the position table of the built program.  The
\* outcome "nilP" is an analyzer that answers no table and no error.
AnalyzeCalls(ps, order, outcome, table) ==
    IF outcome \in {"noprog", "nofset"}
    THEN [calls |-> EmptyMap, fset |-> NilFset, err |-> TRUE]
    ELSE IF outcome = "nilP"
    THEN [calls |-> EmptyMap, fset |-> NilFset, err |-> FALSE]
    ELSE [calls |-> [i \in {j \in DOMAIN ps :
                              CallsOfPackage(ps, order, j) # <<>>}
                     |-> CallsOfPackage(ps, order, i)],
          fset |-> table, err |-> FALSE]

\* ------------------------------------------------------- orchestrator
NilReport == [isNil |-> TRUE, Packages |-> <<>>]
NoResult == [returned |-> FALSE, err |-> "", report |-> NilReport]
Failure(kind) == [returned |-> TRUE, err |-> kind, report |-> NilReport]
Success(report) == [returned |-> TRUE, err |-> "", report |-> report]

NoOutcomes == [load |-> "?", ifaces |-> "?", calls |-> "?", find |-> "?"]

\* no syntax tree has been handed to the extraction helpers
NoUnit == [kind |-> "none"]

\* the command-line program has not been started
NotStarted == [pc |-> "idle", stdout |-> <<>>, stderr |-> <<>>, exit |-> -1]

\* the check with the zero-package test forgotten
LoadFailedNoLen(ps, err) == err

\* AnalyzeProject: the loader's answer is fatal
LoadFailed(ps, err) == err \/ Len(ps) = 0

\* AnalyzeProject: the map used after AnalyzeInterfaces answered (m, err)
InterfacesOrEmpty(m, err) == IF err THEN EmptyMap ELSE m

\* the check with the nil-table test forgotten
CallAnalysisFailedNoNil(err, fset) == err

\* AnalyzeProject: the call extractor's answer is fatal
CallAnalysisFailed(err, fset) == err \/ fset = NilFset

\* AnalyzeProject: after a finder failure nil lists become empty lists
EnsureImplementations(iface) ==
    IF iface.ImplNil THEN [iface EXCEPT !.ImplNil = FALSE] ELSE iface

\* the finder's error returned to the caller instead of logged
AfterFindAborts(err) == IF err THEN "done" ELSE "assemble"

\* the finder called before the call extractor
AfterInterfacesSkipsCalls(err) == "find"

\* AnalyzeProject: the position after each collaborator answered
AfterLoad(failed) == IF failed THEN "done" ELSE "interfaces"
AfterInterfaces(err) == "calls"
AfterCalls(failed) == IF failed THEN "done" ELSE "find"
AfterFind(err) == "assemble"

\* interfacesByPkgPath[path] when interfacesMap is iterated in order
InterfacesOfPath(ifs, order, path) ==
    LET ks == SelectSeq(order, LAMBDA k : ifs[k].PackagePath = path)
    IN [n \in DOMAIN ks |-> ifs[ks[n]]]

\* a list that go/packages or a map lookup leaves nil when it has no entry
GoSlice(list) == IF list = <<>> THEN NilSlice ELSE Slice(list)

\* AnalyzeProject: a nil list of a package report becomes an empty list
EnsureList(s) == IF s.isNil THEN Slice(<<>>) ELSE s

\* the PackageAnalysis of package i; imports is the order in which
\* pkg.Imports is iterated
PackageAnalysis(ps, i, ifs, order, calls, imports) ==
    [Name |-> ps[i].Name, Path |-> ps[i].PkgPath, Files |-> ps[i].GoFiles,
     Imports |-> imports,
     EmbedFiles |-> ps[i].EmbedFiles, EmbedPatterns |-> ps[i].EmbedPatterns,
     Interfaces |-> InterfacesOfPath(ifs, order, ps[i].PkgPath),
     Calls |-> IF i \in DOMAIN calls THEN calls[i] ELSE <<>>,
     NilLists |->
        (IF EnsureList(GoSlice(ps[i].GoFiles)).isNil THEN {"Files"} ELSE {})
        \cup (IF EnsureList(Slice(imports)).isNil THEN {"Imports"} ELSE {})
        \cup (IF EnsureList(GoSlice(InterfacesOfPath(ifs, order, ps[i].PkgPath))).isNil
              THEN {"Interfaces"} ELSE {})]

\* the assembled ProjectAnalysis
Assemble(ps, ifs, order, calls, imports) ==
    [isNil |-> FALSE,
     Packages |-> [i \in DOMAIN ps |->
                     PackageAnalysis(ps, i, ifs, order, calls, imports[i])]]

\* the ways the import sets of the packages can be iterated
ImportOrders(ps) ==
    {f \in [DOMAIN ps -> UNION {Perms(ps[i].Imports) : i \in DOMAIN ps}] :
        \A i \in DOMAIN ps : f[i] \in Perms(ps[i].Imports)}

\* a failing finder may leave any list nil
LeftNil(ifs, nilKeys) ==
    [k \in DOMAIN ifs |->
       IF k \in nilKeys THEN [ifs[k] EXCEPT !.Implementations = <<>>, !.ImplNil = TRUE]
       ELSE ifs[k]]

\* a collaborator answers the same in every run of one tree
Answers(field, options) ==
    IF outcomes[field] = "?" THEN options ELSE {outcomes[field]}

Init ==
    /\ snapshot \in Snapshots
    /\ aliasMaterialised \in BOOLEAN
    /\ run = 1
    /\ pc = "load"
    /\ pkgs = <<>>
    /\ interfacesMap = EmptyMap
    /\ callsByPackage = EmptyMap
    /\ ssaFset = NilFset
    /\ fsetPassed = NilFset
    /\ invoked = <<>>
    /\ outcomes = NoOutcomes
    /\ result = NoResult
    /\ firstReport = NoResult
    /\ finderCalls = 0
    /\ unit = NoUnit
    /\ cli = NotStarted

\* pkgs, err := s.loader.Load(path)
DoLoad ==
    /\ pc = "load"
    /\ \E o \in Answers("load", {"err", "ok"}) :
         LET r == Load(snapshot, o = "err")
             failed == LoadFailed(r.pkgs, r.err)
         IN /\ outcomes' = [outcomes EXCEPT !.load = o]
            /\ invoked' = Append(invoked, "L")
            /\ pkgs' = r.pkgs
            /\ pc' = AfterLoad(failed)
            /\ result' = IF failed THEN Failure("load") ELSE result
    /\ UNCHANGED <<snapshot, aliasMaterialised, run, interfacesMap,
                   callsByPackage, ssaFset, fsetPassed, firstReport, finderCalls, unit, cli>>

\* interfacesMap, err := s.interfaceAnalyzer.AnalyzeInterfaces(pkgs)
DoInterfaces ==
    /\ pc = "interfaces"
    /\ \E o \in Answers("ifaces", {"err", "ok"}) :
         /\ outcomes' = [outcomes EXCEPT !.ifaces = o]
         /\ invoked' = Append(invoked, "A")
         /\ interfacesMap' = InterfacesOrEmpty(
                IF o = "err" THEN EmptyMap ELSE AnalyzeInterfaces(pkgs), o = "err")
         /\ pc' = AfterInterfaces(o = "err")
    /\ UNCHANGED <<snapshot, aliasMaterialised, run, pkgs, callsByPackage,
                   ssaFset, fsetPassed, result, firstReport, finderCalls, unit, cli>>

\* callsByPackage, _, ssaFset, err = s.callGraphAnalyzer.AnalyzeCalls(pkgs)
DoCalls ==
    /\ pc = "calls"
    /\ \E o \in Answers("calls", {"noprog", "nofset", "nilP", "ok"}) :
       \E order \in Perms(AllFunctions(pkgs)) :
         LET r == AnalyzeCalls(pkgs, order, o, run)
             failed == CallAnalysisFailed(r.err, r.fset)
         IN /\ outcomes' = [outcomes EXCEPT !.calls = o]
            /\ invoked' = Append(invoked, "C")
            /\ callsByPackage' = r.calls
            /\ ssaFset' = r.fset
            /\ pc' = AfterCalls(failed)
            /\ result' = IF failed THEN Failure("calls") ELSE result
    /\ UNCHANGED <<snapshot, aliasMaterialised, run, pkgs, interfacesMap,
                   fsetPassed, firstReport, finderCalls, unit, cli>>

\* err = s.implementationFinder.FindImplementations(pkgs, interfacesMap, ssaFset)
DoFind ==
    /\ pc = "find"
    /\ \E o \in Answers("find", {"err", "ok"}) :
         /\ outcomes' = [outcomes EXCEPT !.find = o]
         /\ invoked' = Append(invoked, "S")
         /\ fsetPassed' = ssaFset
         /\ IF o = "ok"
            THEN \E order \in Perms(MappedKeys(pkgs, interfacesMap)) :
                   interfacesMap' = FindImplementations(
                       pkgs, interfacesMap, ssaFset, order, aliasMaterialised)
            ELSE \E nilKeys \in SUBSET DOMAIN interfacesMap :
                   interfacesMap' =
                       [k \in DOMAIN interfacesMap |->
                          EnsureImplementations(LeftNil(interfacesMap, nilKeys)[k])]
         /\ pc' = AfterFind(o = "err")
    /\ UNCHANGED <<snapshot, aliasMaterialised, run, pkgs, callsByPackage,
                   ssaFset, result, firstReport, finderCalls, unit, cli>>

\* assemble the ProjectAnalysis and return it
DoAssemble ==
    /\ pc = "assemble"
    /\ \E order \in Perms(DOMAIN interfacesMap) :
       \E imports \in ImportOrders(pkgs) :
         result' = Success(Assemble(pkgs, interfacesMap, order, callsByPackage, imports))
    /\ pc' = "done"
    /\ UNCHANGED <<snapshot, aliasMaterialised, run, pkgs, interfacesMap,
                   callsByPackage, ssaFset, fsetPassed, invoked, outcomes,
                   firstReport, finderCalls, unit, cli>>

\* AnalyzeProject is called again on the unchanged tree
NextRun ==
    /\ pc = "done"
    /\ run = 1
    /\ run' = run + 1
    /\ pc' = "load"
    /\ firstReport' = result
    /\ pkgs' = <<>>
    /\ interfacesMap' = EmptyMap
    /\ callsByPackage' = EmptyMap
    /\ ssaFset' = NilFset
    /\ fsetPassed' = NilFset
    /\ invoked' = <<>>
    /\ result' = NoResult
    /\ UNCHANGED <<snapshot, aliasMaterialised, outcomes, finderCalls, unit, cli>>

Next == DoLoad \/ DoInterfaces \/ DoCalls \/ DoFind \/ DoAssemble \/ NextRun

Spec == Init /\ [][Next]_vars

\* ------------------------------------------------------- the finder, called directly
Reverse(s) == [i \in DOMAIN s |-> s[Len(s) + 1 - i]]

\* the position tables a caller may hand over: none, or the program's
Tables == {NilFset, 1}

\* the packages that carry type information
TypedCatalogue == {p \in Catalogue : p.Types}

\* a satisfier recorded by an earlier call made with another package list
EarlierSatisfier ==
    [TypeName |-> "X", PackagePath |-> "ext", PackageName |-> "ext",
     IsPointer |-> FALSE, Location |-> NewLocation(File("/ext", "x.go"), 1)]

\* the map a caller hands over: as extracted, or with the lists of the
\* abstractions that cannot be mapped already holding a satisfier
CallerMaps(ps) ==
    LET m == AnalyzeInterfaces(ps)
    IN {m, [k \in DOMAIN m |->
              IF IsMapped(ps, m[k]) THEN m[k]
              ELSE [m[k] EXCEPT !.Implementations = <<EarlierSatisfier>>]]}

InitFinder ==
    /\ snapshot \in {s \in Snapshots : Range(s) \subseteq TypedCatalogue}
    /\ aliasMaterialised \in BOOLEAN
    /\ run = 1
    /\ pc = "finder"
    /\ pkgs = ValidPkgs(snapshot)
    /\ interfacesMap \in CallerMaps(ValidPkgs(snapshot))
    /\ callsByPackage = EmptyMap
    /\ ssaFset \in Tables
    /\ fsetPassed = NilFset
    /\ invoked = <<>>
    /\ outcomes = NoOutcomes
    /\ result = NoResult
    /\ firstReport = NoResult
    /\ finderCalls = 0
    /\ unit = NoUnit
    /\ cli = NotStarted

\* FindImplementations(pkgs, interfaces, fset) on the map as it stands
CallFindImplementations ==
    /\ pc = "finder"
    /\ finderCalls < MaxFinderCalls
    /\ \E ps \in {pkgs, Reverse(pkgs)} :
       \E order \in Perms(MappedKeys(ps, interfacesMap)) :
         interfacesMap' = FindImplementations(
             ps, interfacesMap, ssaFset, order, aliasMaterialised)
    /\ fsetPassed' = ssaFset
    /\ finderCalls' = finderCalls + 1
    /\ UNCHANGED <<snapshot, aliasMaterialised, run, pc, pkgs, callsByPackage,
                   ssaFset, invoked, outcomes, result, firstReport, unit, cli>>

\* addImplementation(iface, typeName, pkg, isPointer, fset) for one satisfied
\* form of one type of the first package (every package is first in some list)
CallAddImplementation ==
    /\ pc = "finder"
    /\ finderCalls < MaxFinderCalls
    /\ \E k \in MappedKeys(pkgs, interfacesMap) :
       \E i \in DOMAIN pkgs \cap {1} :
       \E j \in DOMAIN pkgs[i].scope :
       \E isPointer \in BOOLEAN :
         /\ Implements(pkgs[i].scope[j], isPointer,
                       MappedMethods(pkgs, interfacesMap[k]))
         /\ interfacesMap' = [interfacesMap EXCEPT ![k] =
                addImplementation(@, pkgs[i].scope[j], pkgs[i], isPointer, ssaFset)]
    /\ fsetPassed' = ssaFset
    /\ finderCalls' = finderCalls + 1
    /\ UNCHANGED <<snapshot, aliasMaterialised, run, pc, pkgs, callsByPackage,
                   ssaFset, invoked, outcomes, result, firstReport, unit, cli>>

NextFinder == CallFindImplementations \/ CallAddImplementation

SpecFinder == InitFinder /\ [][NextFinder]_vars

\* ------------------------------------------------------- properties
Invoked(stage) == stage \in Range(invoked)

\* the satisfier (typeName, pkgPath, isPointer) is in the list of an abstraction
HasSatisfier(iface, typeName, pkgPath, isPointer) ==
    IsDuplicate(iface.Implementations, typeName, pkgPath, isPointer)

\* C1: when the loader answers an error or zero packages, AnalyzeProject
\* fails without a report and invokes none of the abstraction extractor, the
\* call extractor and the satisfaction finder.
C1_LoaderFailureIsFatal ==
    (Invoked("L") /\ Len(pkgs) = 0) =>
        /\ pc = "done"
        /\ result = Failure("load")
        /\ invoked = <<"L">>

\* the loader answered an empty list without an error, and the run failed
C1_Witness ==
    /\ pc = "done"
    /\ snapshot = <<>>
    /\ outcomes.load = "ok"
    /\ result.err = "load"

\* C2: when the call extractor answers an error or a nil position table,
\* AnalyzeProject fails without a report and the finder is not invoked; the
\* finder is only ever invoked with a non-nil table.
C2_CallFailureIsFatal ==
    /\ (Invoked("C") /\ outcomes.calls \in {"noprog", "nofset", "nilP"}) =>
          /\ pc = "done"
          /\ result = Failure("calls")
          /\ ~Invoked("S")
    /\ Invoked("S") => fsetPassed # NilFset

\* the call extractor answered a nil table without an error, and the run failed
C2_Witness ==
    /\ pc = "done"
    /\ outcomes.calls = "nilP"
    /\ result.err = "calls"
    /\ DOMAIN interfacesMap # {}

\* C3: a failure of the abstraction extractor or of the finder does not abort:
\* when the loader and the call extractor succeeded a report is returned;
\* after an extractor failure the map is empty and the call extractor and the
\* finder still run; after a finder failure no satisfier list is nil.
C3_WarningsDoNotAbort ==
    /\ (pc = "done" /\ Len(pkgs) > 0 /\ ssaFset # NilFset) =>
          /\ result.returned /\ result.err = "" /\ ~result.report.isNil
          /\ invoked = <<"L", "A", "C", "S">>
    /\ (Invoked("A") /\ outcomes.ifaces = "err") => interfacesMap = EmptyMap
    /\ (Invoked("S") /\ outcomes.find = "err") =>
          \A k \in DOMAIN interfacesMap : ~interfacesMap[k].ImplNil
    /\ (pc = "done" /\ result.err = "") =>
          \A i \in DOMAIN result.report.Packages :
          \A n \in DOMAIN result.report.Packages[i].Interfaces :
              ~result.report.Packages[i].Interfaces[n].ImplNil

\* the finder failed on a map with abstractions and a report was returned
C3_Witness ==
    /\ pc = "done"
    /\ outcomes.find = "err"
    /\ DOMAIN interfacesMap # {}
    /\ result.err = ""
    /\ ~result.report.isNil

\* C4: in every run the collaborators are invoked at most once each, in the
\* order loader, abstraction extractor, call extractor, finder; the finder
\* gets the table the call extractor of this run produced; the report is
\* assembled only after the finder has been invoked.
C4_StageOrder ==
    /\ invoked \in {<<>>, <<"L">>, <<"L", "A">>, <<"L", "A", "C">>,
                    <<"L", "A", "C", "S">>}
    /\ Invoked("S") => (fsetPassed = ssaFset /\ ssaFset = run)
    /\ (pc = "assemble" \/ (pc = "done" /\ result.err = "")) =>
          invoked = <<"L", "A", "C", "S">>

\* a second run went through all four stages and returned a report
C4_Witness ==
    /\ pc = "done"
    /\ run = 2
    /\ invoked = <<"L", "A", "C", "S">>
    /\ fsetPassed = 2
    /\ result.err = ""

\* C5: no satisfier list holds two entries with the same TypeName,
\* PackagePath and IsPointer, whatever calls were made on the finder.
C5_NoDuplicateSatisfiers ==
    \A k \in DOMAIN interfacesMap :
        LET impls == interfacesMap[k].Implementations
        IN \A i, j \in DOMAIN impls :
             (/\ impls[i].TypeName = impls[j].TypeName
              /\ impls[i].PackagePath = impls[j].PackagePath
              /\ impls[i].IsPointer = impls[j].IsPointer) => i = j

\* two calls were made on lists that already held satisfiers, with one import
\* path loaded twice
C5_Witness ==
    /\ finderCalls >= 2
    /\ \E i, j \in DOMAIN pkgs : i # j /\ pkgs[i].PkgPath = pkgs[j].PkgPath
    /\ \E k \in DOMAIN interfacesMap : Len(interfacesMap[k].Implementations) >= 2

\* the finder has run to its end in this run
FinderDone == Invoked("S") /\ outcomes.find = "ok"

\* type name j of package i is checked by FindImplementations: the package has
\* type information and no earlier type name denotes the same type
IsChecked(ps, i, j, mat) ==
    /\ ps[i].Types
    /\ \A i2 \in DOMAIN ps : \A j2 \in DOMAIN ps[i2].scope :
         (/\ ps[i2].Types
          /\ (i2 < i \/ (i2 = i /\ j2 < j)))
         => TypeOf(ps[i2].scope[j2], mat) # TypeOf(ps[i].scope[j], mat)

\* both forms of type name j of package i satisfy the abstraction with key k
BothSatisfy(ps, i, j, ifs, k) ==
    /\ Implements(ps[i].scope[j], FALSE, MappedMethods(ps, ifs[k]))
    /\ Implements(ps[i].scope[j], TRUE, MappedMethods(ps, ifs[k]))

BothRecorded(ps, i, j, ifs, k) ==
    /\ HasSatisfier(ifs[k], ps[i].scope[j].name, ps[i].PkgPath, FALSE)
    /\ HasSatisfier(ifs[k], ps[i].scope[j].name, ps[i].PkgPath, TRUE)

IsAbstractionType(ps, typeName, pkgPath) ==
    \E i \in DOMAIN ps : \E j \in DOMAIN ps[i].scope :
        /\ ps[i].PkgPath = pkgPath
        /\ ps[i].scope[j].name = typeName
        /\ ps[i].scope[j].under = "interface"

\* C7: no named type whose underlying type is an interface is in a satisfier
\* list; an abstraction is not in its own list.
C7_NoAbstractionAsSatisfier ==
    \A k \in DOMAIN interfacesMap :
    \A n \in DOMAIN interfacesMap[k].Implementations :
        ~IsAbstractionType(pkgs, interfacesMap[k].Implementations[n].TypeName,
                           interfacesMap[k].Implementations[n].PackagePath)

\* C8: whenever (T, IsPointer=false) is in a list, (T, IsPointer=true) is in
\* it as well.
C8_ValueImpliesPointer ==
    FinderDone =>
        \A k \in DOMAIN interfacesMap :
        \A n \in DOMAIN interfacesMap[k].Implementations :
            LET s == interfacesMap[k].Implementations[n]
            IN ~s.IsPointer =>
                 HasSatisfier(interfacesMap[k], s.TypeName, s.PackagePath, TRUE)

\* a filename is relative, or absolute outside the module root
IsPortable(file) == file.root = "" \/ file.root # ModuleDir

\* the filenames of one package report
ReportFilenames(pa) ==
    Range(pa.Files)
    \cup {pa.Interfaces[n].Location.Filename : n \in DOMAIN pa.Interfaces}
    \cup UNION {{pa.Interfaces[n].Implementations[m].Location.Filename :
                   m \in DOMAIN pa.Interfaces[n].Implementations} :
                n \in DOMAIN pa.Interfaces}
    \cup {pa.Calls[n].Location.Filename : n \in DOMAIN pa.Calls}

\* C9: every filename of a returned report is relative to the module root or
\* an absolute path outside the module root.
C9_FilenamesRelative ==
    (pc = "done" /\ result.err = "") =>
        \A i \in DOMAIN result.report.Packages :
        \A f \in ReportFilenames(result.report.Packages[i]) : IsPortable(f)

\* C10: two runs on the same loaded snapshot return equal reports.
C10_Deterministic ==
    (pc = "done" /\ run = 2 /\ result.err = "" /\ firstReport.err = "") =>
        result.report = firstReport.report

\* the package reports that list the abstraction iface
OwnersOf(report, iface) ==
    {i \in DOMAIN report.Packages :
        \E n \in DOMAIN report.Packages[i].Interfaces :
            /\ report.Packages[i].Interfaces[n].Name = iface.Name
            /\ report.Packages[i].Interfaces[n].PackagePath = iface.PackagePath}

\* C11: every abstraction of the extracted map is in the Interfaces list of
\* exactly one package report, the one of its defining import path, also when
\* the loader list holds a package and its test variant.
C11_UniqueOwner ==
    (pc = "done" /\ result.err = "") =>
        \A k \in DOMAIN interfacesMap :
            /\ Cardinality(OwnersOf(result.report, interfacesMap[k])) = 1
            /\ \A i \in OwnersOf(result.report, interfacesMap[k]) :
                 result.report.Packages[i].Path = interfacesMap[k].PackagePath

\* C12: every collection field of a returned report is a list, never null:
\* Files, Imports and Interfaces of a package; Methods, Embeds and
\* Implementations of an abstraction; Parameters and ReturnTypes of a method.
C12_NoNullCollections ==
    (pc = "done" /\ result.err = "") =>
        \A i \in DOMAIN result.report.Packages :
            LET pa == result.report.Packages[i]
            IN /\ pa.NilLists = {}
               /\ \A n \in DOMAIN pa.Interfaces :
                    /\ ~pa.Interfaces[n].ImplNil
                    /\ ~pa.Interfaces[n].Methods.isNil
                    /\ ~pa.Interfaces[n].Embeds.isNil
                    /\ \A m \in DOMAIN pa.Interfaces[n].Methods.elems :
                         /\ ~pa.Interfaces[n].Methods.elems[m].Parameters.isNil
                         /\ ~pa.Interfaces[n].Methods.elems[m].ReturnTypes.isNil

\* ------------------------------------------------------- the extraction helpers, called directly
\* parameter fields: int; a, b *T; ctx context.Context; rest ...string
ParamFields ==
    { Field(<<>>, Ident("int")),
      Field(<<"a", "b">>, StarExpr(Ident("T"))),
      Field(<<"ctx">>, SelectorExpr(Ident("context"), "Context")),
      Field(<<"rest">>, Ellipsis(Ident("string"))),
      Field(<<"callback">>,
            FuncType(FieldList(<<Field(<<>>, Ident("string"))>>),
                     FieldList(<<Field(<<>>, Ident("error"))>>))) }

\* result fields: error; count int; n, m int
ResultFields ==
    { Field(<<>>, Ident("error")),
      Field(<<"count">>, Ident("int")),
      Field(<<"n", "m">>, Ident("int")) }

\* the lists of at most n elements of S
ListsUpTo(S, n) == UNION {[1..k -> S] : k \in 0..n}

\* function types: each field list is absent or holds at most MaxFields fields
FuncTypes ==
    {FuncType(ps, rs) :
        ps \in {NilFieldList} \cup {FieldList(l) : l \in ListsUpTo(ParamFields, MaxFields)},
        rs \in {NilFieldList} \cup {FieldList(l) : l \in ListsUpTo(ResultFields, MaxFields)}}

\* fields of an interface type: the method m(), a method with named results,
\* a method whose type is no function type, the embeds io.Reader and E
MemberFields ==
    { FieldM,
      Field(<<"n">>, FuncType(FieldList(<<Field(<<"a", "b">>, StarExpr(Ident("T")))>>),
                              FieldList(<<Field(<<"count">>, Ident("int")),
                                          Field(<<"err">>, Ident("error"))>>))),
      Field(<<"bad">>, Ident("int")),
      Field(<<>>, SelectorExpr(Ident("io"), "Reader")),
      Field(<<>>, Ident("E")) }

\* what can be handed to the helpers: one method field, or the fields of one
\* interface type
UnitInputs ==
    {[kind |-> "method", field |-> Field(<<"m">>, ft), typed |-> t, done |-> FALSE]
        : ft \in FuncTypes, t \in BOOLEAN}
    \cup {[kind |-> "interface", fields |-> fs, typed |-> t, done |-> FALSE]
            : fs \in ListsUpTo(MemberFields, MaxMembers), t \in BOOLEAN}

InitExtract ==
    /\ snapshot = <<>>
    /\ aliasMaterialised = FALSE
    /\ run = 1
    /\ pc = "extract"
    /\ pkgs = <<>>
    /\ interfacesMap = EmptyMap
    /\ callsByPackage = EmptyMap
    /\ ssaFset = NilFset
    /\ fsetPassed = NilFset
    /\ invoked = <<>>
    /\ outcomes = NoOutcomes
    /\ result = NoResult
    /\ firstReport = NoResult
    /\ finderCalls = 0
    /\ unit \in UnitInputs
    /\ cli = NotStarted

\* the datamodel.Method of the method field is built
CallNewMethod ==
    /\ pc = "extract"
    /\ unit.kind = "method"
    /\ ~unit.done
    /\ unit' = [kind |-> "method", field |-> unit.field, typed |-> unit.typed,
                done |-> TRUE,
                method |-> NewMethod(unit.field, unit.typed, NewLocation(FileA, 1))]
    /\ UNCHANGED <<snapshot, aliasMaterialised, run, pc, pkgs, interfacesMap,
                   callsByPackage, ssaFset, fsetPassed, invoked, outcomes, result,
                   firstReport, finderCalls, cli>>

\* the methods and embeds of the interface type are extracted
CallExtractMembers ==
    /\ pc = "extract"
    /\ unit.kind = "interface"
    /\ ~unit.done
    /\ unit' = [kind |-> "interface", fields |-> unit.fields, typed |-> unit.typed,
                done |-> TRUE,
                Methods |-> ExtractMethods(unit.fields, unit.typed, FileA, 1),
                Embeds |-> ExtractEmbeds(unit.fields, unit.typed)]
    /\ UNCHANGED <<snapshot, aliasMaterialised, run, pc, pkgs, interfacesMap,
                   callsByPackage, ssaFset, fsetPassed, invoked, outcomes, result,
                   firstReport, finderCalls, cli>>

NextExtract == CallNewMethod \/ CallExtractMembers

SpecExtract == InitExtract /\ [][NextExtract]_vars

\* the number of positions of a field list: one per name, one per unnamed field
RECURSIVE Positions(_)
Positions(list) ==
    IF list = <<>> THEN 0
    ELSE (IF Len(Head(list).Names) > 0 THEN Len(Head(list).Names) ELSE 1)
         + Positions(Tail(list))

\* C13: for every method built from a function type, the signature starts with
\* the method name followed by one "(", Parameters has one entry per parameter
\* position, and ReturnTypes has one entry per returned value.
C13_MethodShape ==
    (unit.kind = "method" /\ unit.done) =>
        LET ft == unit.field.Type
            m == unit.method
        IN /\ Len(m.Signature) >= 3
           /\ m.Signature[1] = m.Name
           /\ m.Signature[2] = "("
           /\ m.Signature[3] # "("
           /\ Len(m.Parameters.elems) = Positions(ft.Params.List)
           /\ Len(m.ReturnTypes.elems) = Positions(ft.Results.List)

\* a method with two parameters declared in one field and two results
\* declared in one field has been built
C13_Witness ==
    /\ unit.kind = "method"
    /\ unit.done
    /\ \E i \in DOMAIN unit.field.Type.Params.List :
           Len(unit.field.Type.Params.List[i].Names) = 2
    /\ \E i \in DOMAIN unit.field.Type.Results.List :
           Len(unit.field.Type.Results.List[i].Names) = 2
    /\ Len(unit.method.Parameters.elems) >= 2
    /\ Len(unit.method.ReturnTypes.elems) >= 2

\* C14: the Embeds list of an abstraction holds no display string twice.
C14_EmbedsDistinct ==
    (unit.kind = "interface" /\ unit.done) =>
        \A i, j \in DOMAIN unit.Embeds.elems :
            unit.Embeds.elems[i] = unit.Embeds.elems[j] => i = j

\* the list a is the beginning of the list b
IsPrefix(a, b) == Len(a) <= Len(b) /\ SubSeq(b, 1, Len(a)) = a

\* C15: the finder only ever appends: every satisfier present before a call is
\* still present after it, unchanged and at the same position, and an
\* abstraction that cannot be mapped to a type keeps its list unchanged.
C15_AppendOnly ==
    [][\A k \in DOMAIN interfacesMap :
          /\ k \in DOMAIN interfacesMap'
          /\ IsPrefix(interfacesMap[k].Implementations,
                      interfacesMap'[k].Implementations)
          /\ ~IsMapped(pkgs, interfacesMap[k]) =>
                interfacesMap'[k].Implementations = interfacesMap[k].Implementations]_vars

\* after two calls a mapped abstraction holds several satisfiers and an
\* unmapped one still holds exactly the satisfier it had before
C15_Witness ==
    /\ finderCalls >= 2
    /\ \E k \in MappedKeys(pkgs, interfacesMap) :
           Len(interfacesMap[k].Implementations) >= 3
    /\ \E k \in DOMAIN interfacesMap :
           /\ ~IsMapped(pkgs, interfacesMap[k])
           /\ interfacesMap[k].Implementations = <<EarlierSatisfier>>

\* C16: Load returns an error whenever its list of usable packages is empty;
\* it never answers an empty list together with a nil error.
C16_LoadNeverEmptyWithoutError ==
    (Invoked("L") /\ outcomes.load = "ok") =>
        ~(/\ ~Load(snapshot, FALSE).err
          /\ Len(Load(snapshot, FALSE).pkgs) = 0)

\* the strings of the model in byte-wise lexicographic order
Lexicographic ==
    << "B", "E", "I", "L", "N", "T", "U", "V", "W", "X", "ext", "p", "p.TestF",
       "p.f", "p.g", "p.test", "p.test.main", "q", "r", "s" >>

\* the filenames of the model in byte-wise lexicographic order
FilenameOrder ==
    << FileA, FileATest, FileQ, FileR, FileS, FileMain,
       File("/ext", "x.go"), File("/goroot", "io/io.go") >>

\* the rank of an element in a list that holds it once
Rank(x, order) == CHOOSE i \in DOMAIN order : order[i] = x

\* the triple a does not come after the triple b
TripleLeq(a, b) ==
    \/ a[1] < b[1]
    \/ a[1] = b[1] /\ a[2] < b[2]
    \/ a[1] = b[1] /\ a[2] = b[2] /\ a[3] <= b[3]

\* the sort key of a call site: (filename, line, caller-display)
CallSiteKey(c) ==
    << Rank(c.Location.Filename, FilenameOrder), c.Location.Line,
       Rank(c.CallerFuncDesc, Lexicographic) >>

\* C17: in every package report the call sites are ordered by (filename, line,
\* caller-display), whatever order the function set was iterated in.
C17_CallSitesSorted ==
    (pc = "done" /\ result.err = "") =>
        \A p \in DOMAIN result.report.Packages :
            LET cs == result.report.Packages[p].Calls
            IN \A i, j \in DOMAIN cs :
                 i < j => TripleLeq(CallSiteKey(cs[i]), CallSiteKey(cs[j]))

\* the sort key of a satisfier: (module-path, type-name, is-pointer)
SatisfierKey(s) ==
    << Rank(s.PackagePath, Lexicographic), Rank(s.TypeName, Lexicographic),
       IF s.IsPointer THEN 1 ELSE 0 >>

\* C18: in every report each satisfier list is sorted by (module-path,
\* type-name, is-pointer), whatever order the loader returned the packages in.
C18_SatisfiersSorted ==
    (pc = "done" /\ result.err = "") =>
        \A p \in DOMAIN result.report.Packages :
        \A n \in DOMAIN result.report.Packages[p].Interfaces :
            LET impls == result.report.Packages[p].Interfaces[n].Implementations
            IN \A i, j \in DOMAIN impls :
                 i < j => TripleLeq(SatisfierKey(impls[i]), SatisfierKey(impls[j]))

\* ------------------------------------------------------- serialization
\* The JSON object of a value is the function from its keys to their values.

\* encoding/json, omitempty with every list kept however short
KeepEmpty(key, list) == key :> list

\* encoding/json: a field tagged omitempty is left out when its list is empty
OmitEmpty(key, list) == IF Len(list) = 0 THEN EmptyMap ELSE key :> list

\* Location: Column is tagged json:"-"
MarshalLocation(l) == [Filename |-> l.Filename, Line |-> l.Line]

MarshalMethod(m) ==
    [Name |-> m.Name, Signature |-> m.Signature, Parameters |-> m.Parameters,
     ReturnTypes |-> m.ReturnTypes, Location |-> MarshalLocation(m.Location)]

MarshalImplementation(s) ==
    [TypeName |-> s.TypeName, PackagePath |-> s.PackagePath,
     PackageName |-> s.PackageName, IsPointer |-> s.IsPointer,
     Location |-> MarshalLocation(s.Location)]

\* Interface.MarshalJSON: the map built from the fields of the abstraction
MarshalInterface(i) ==
    [Name |-> i.Name, PackageName |-> i.PackageName, PackagePath |-> i.PackagePath,
     Location |-> MarshalLocation(i.Location),
     Methods |-> IF i.Methods.isNil THEN i.Methods
                 ELSE Slice([n \in DOMAIN i.Methods.elems |->
                               MarshalMethod(i.Methods.elems[n])]),
     Embeds |-> i.Embeds,
     Implementations |-> [n \in DOMAIN i.Implementations |->
                            MarshalImplementation(i.Implementations[n])]]

MarshalCallSite(c) ==
    [CallerFuncDesc |-> c.CallerFuncDesc, CalleeDesc |-> c.CalleeDesc,
     CallType |-> c.CallType, Location |-> MarshalLocation(c.Location)]

\* PackageAnalysis: EmbedFiles, EmbedPatterns and Calls are tagged omitempty
MarshalPackageAnalysis(pa) ==
    [Name |-> pa.Name, Path |-> pa.Path, Files |-> pa.Files, Imports |-> pa.Imports,
     Interfaces |-> [n \in DOMAIN pa.Interfaces |-> MarshalInterface(pa.Interfaces[n])]]
    @@ OmitEmpty("EmbedFiles", pa.EmbedFiles)
    @@ OmitEmpty("EmbedPatterns", pa.EmbedPatterns)
    @@ OmitEmpty("Calls", [n \in DOMAIN pa.Calls |-> MarshalCallSite(pa.Calls[n])])

MarshalProjectAnalysis(report) ==
    [Packages |-> [p \in DOMAIN report.Packages |->
                     MarshalPackageAnalysis(report.Packages[p])]]

\* every serialized Location of the JSON object of a package
SerializedLocations(js) ==
    {js.Interfaces[n].Location : n \in DOMAIN js.Interfaces}
    \cup UNION {{js.Interfaces[n].Methods.elems[m].Location :
                   m \in DOMAIN js.Interfaces[n].Methods.elems} :
                n \in DOMAIN js.Interfaces}
    \cup UNION {{js.Interfaces[n].Implementations[m].Location :
                   m \in DOMAIN js.Interfaces[n].Implementations} :
                n \in DOMAIN js.Interfaces}
    \cup (IF "Calls" \in DOMAIN js
          THEN {js.Calls[n].Location : n \in DOMAIN js.Calls} ELSE {})

\* C19: in the serialized report the keys EmbedFiles, EmbedPatterns and Calls
\* of a package are absent exactly when the list is empty, no Location has a
\* Column key, and no abstraction has an UnderlyingType key.
C19_SerializedKeys ==
    (pc = "done" /\ result.err = "") =>
        \A p \in DOMAIN result.report.Packages :
            LET pa == result.report.Packages[p]
                js == MarshalProjectAnalysis(result.report).Packages[p]
            IN /\ ("EmbedFiles" \in DOMAIN js) <=> (Len(pa.EmbedFiles) > 0)
               /\ ("EmbedPatterns" \in DOMAIN js) <=> (Len(pa.EmbedPatterns) > 0)
               /\ ("Calls" \in DOMAIN js) <=> (Len(pa.Calls) > 0)
               /\ \A l \in SerializedLocations(js) : "Column" \notin DOMAIN l
               /\ \A n \in DOMAIN js.Interfaces :
                      "UnderlyingType" \notin DOMAIN js.Interfaces[n]

\* a report in which one package has embedded files, call sites and an
\* abstraction that holds its type handle and a satisfier with a column, and
\* another package has neither embedded files nor call sites
C19_Witness ==
    /\ pc = "done" /\ result.err = ""
    /\ \E p \in DOMAIN result.report.Packages :
         LET pa == result.report.Packages[p]
         IN /\ Len(pa.EmbedFiles) > 0 /\ Len(pa.EmbedPatterns) > 0 /\ Len(pa.Calls) > 0
            /\ pa.Calls[1].Location.Column > 0
            /\ \E n \in DOMAIN pa.Interfaces :
                 /\ pa.Interfaces[n].UnderlyingType # NoType
                 /\ \E m \in DOMAIN pa.Interfaces[n].Implementations :
                      pa.Interfaces[n].Implementations[m].Location.Column > 0
    /\ \E p \in DOMAIN result.report.Packages :
         LET pa == result.report.Packages[p]
         IN Len(pa.EmbedFiles) = 0 /\ Len(pa.EmbedPatterns) = 0 /\ Len(pa.Calls) = 0

\* ------------------------------------------------------- the command-line program
\* cli = [pc, stdout, stderr, exit]: the position of main, what it wrote to
\* standard output and to the diagnostic stream, and its exit status (-1 while
\* it runs). log.Fatalf writes one line to the diagnostic stream and exits 1.
UsageText == "Usage"
Banner == "===== ANALYSIS RESULTS (JSON) ====="
SummaryHeader == "===== ANALYSIS SUMMARY ====="

\* one write to a stream: what it is and its content
Written(kind, body) == [kind |-> kind, body |-> body]

Fatalf(c, msg) ==
    [c EXCEPT !.stderr = Append(@, Written("fatal", msg)), !.exit = 1,
              !.pc = "exited"]

\* the outcomes of filepath.Abs, os.Stat and info.IsDir for the argument
PathOutcomes == {"ok", "abs-error", "not-exist", "stat-error", "not-dir"}

\* main with the error of AnalyzeProject ignored
AnalysisFailedIgnored(err) == FALSE

\* main: if err != nil after AnalyzeProject
AnalysisFailed(err) == err # ""

\* json.NewEncoder(os.Stdout).Encode(projectAnalysis)
Encode(report) ==
    IF report.isNil THEN Written("json", "null")
    ELSE Written("json", MarshalProjectAnalysis(report))

\* the totals main prints after the report
Sum(f) ==
    LET RECURSIVE Upto(_)
        Upto(n) == IF n = 0 THEN 0 ELSE f[n] + Upto(n - 1)
    IN Upto(Len(f))

Summary(report) ==
    IF report.isNil
    THEN <<Written("summary", SummaryHeader),
           Written("totals", "Project analysis result was nil.")>>
    ELSE <<Written("summary", SummaryHeader),
           Written("totals",
           [packages |-> Len(report.Packages),
            interfaces |-> Sum([p \in DOMAIN report.Packages |->
                                  Len(report.Packages[p].Interfaces)]),
            implementations |->
                Sum([p \in DOMAIN report.Packages |->
                       Sum([n \in DOMAIN report.Packages[p].Interfaces |->
                              Len(report.Packages[p].Interfaces[n].Implementations)])]),
            calls |-> Sum([p \in DOMAIN report.Packages |->
                             Len(report.Packages[p].Calls)])])>>

InitMain ==
    /\ snapshot \in Snapshots
    /\ aliasMaterialised \in BOOLEAN
    /\ run = 1
    /\ pc = "load"
    /\ pkgs = <<>>
    /\ interfacesMap = EmptyMap
    /\ callsByPackage = EmptyMap
    /\ ssaFset = NilFset
    /\ fsetPassed = NilFset
    /\ invoked = <<>>
    /\ outcomes = NoOutcomes
    /\ result = NoResult
    /\ firstReport = NoResult
    /\ finderCalls = 0
    /\ unit = NoUnit
    /\ cli = [NotStarted EXCEPT !.pc = "args"]

\* main: the usage text when no argument was given
MainArgs ==
    /\ cli.pc = "args"
    /\ \E given \in BOOLEAN :
         cli' = IF given THEN [cli EXCEPT !.pc = "path"]
                ELSE [cli EXCEPT !.stdout = Append(@, Written("usage", UsageText)),
                                 !.exit = 1, !.pc = "exited"]
    /\ UNCHANGED <<snapshot, aliasMaterialised, run, pc, pkgs, interfacesMap,
                   callsByPackage, ssaFset, fsetPassed, invoked, outcomes,
                   result, firstReport, finderCalls, unit>>

\* main: the argument is made absolute and must be a directory
MainPath ==
    /\ cli.pc = "path"
    /\ \E o \in PathOutcomes :
         cli' = IF o = "ok"
                THEN [cli EXCEPT !.stderr = Append(@, Written("log", "Starting analysis")),
                                 !.pc = "analyze"]
                ELSE Fatalf(cli, o)
    /\ UNCHANGED <<snapshot, aliasMaterialised, run, pc, pkgs, interfacesMap,
                   callsByPackage, ssaFset, fsetPassed, invoked, outcomes,
                   result, firstReport, finderCalls, unit>>

\* main: analysisService.AnalyzeProject(targetPath) runs its stages
MainAnalyze ==
    /\ cli.pc = "analyze"
    /\ DoLoad \/ DoInterfaces \/ DoCalls \/ DoFind \/ DoAssemble

\* main: AnalyzeProject returned
MainReturned ==
    /\ cli.pc = "analyze"
    /\ pc = "done"
    /\ cli' = IF AnalysisFailed(result.err) THEN Fatalf(cli, "Analysis failed")
              ELSE [cli EXCEPT !.pc = "output"]
    /\ UNCHANGED <<snapshot, aliasMaterialised, run, pc, pkgs, interfacesMap,
                   callsByPackage, ssaFset, fsetPassed, invoked, outcomes,
                   result, firstReport, finderCalls, unit>>

\* main: the banner and the report on standard output; the encoder writes
\* the whole report or fails
MainOutput ==
    /\ cli.pc = "output"
    /\ \E written \in BOOLEAN :
         cli' = IF written
                THEN [cli EXCEPT !.stdout = @ \o <<Written("banner", Banner),
                                                     Encode(result.report)>>,
                                 !.pc = "summary"]
                ELSE Fatalf([cli EXCEPT !.stdout = Append(@, Written("banner", Banner))],
                            "Failed to encode results to JSON")
    /\ UNCHANGED <<snapshot, aliasMaterialised, run, pc, pkgs, interfacesMap,
                   callsByPackage, ssaFset, fsetPassed, invoked, outcomes,
                   result, firstReport, finderCalls, unit>>

\* main: the summary on the diagnostic stream, then main returns
MainSummary ==
    /\ cli.pc = "summary"
    /\ cli' = [cli EXCEPT !.stderr = @ \o Summary(result.report),
                          !.exit = 0, !.pc = "exited"]
    /\ UNCHANGED <<snapshot, aliasMaterialised, run, pc, pkgs, interfacesMap,
                   callsByPackage, ssaFset, fsetPassed, invoked, outcomes,
                   result, firstReport, finderCalls, unit>>

NextMain ==
    MainArgs \/ MainPath \/ MainAnalyze \/ MainReturned \/ MainOutput \/ MainSummary

SpecMain == InitMain /\ [][NextMain]_vars

\* the report, the summary and the failure of the analysis as main sees them
ReportWritten ==
    \E i \in DOMAIN cli.stdout :
        /\ cli.stdout[i].kind = "json"
        /\ cli.stdout[i] = Encode(result.report)
SummaryWritten == \E i \in DOMAIN cli.stderr : cli.stderr[i].kind = "summary"
AnalysisEndedFatally == pc = "done" /\ result.returned /\ result.err # ""

\* C20: when the analysis ends in a fatal failure the program writes nothing
\* to standard output and exits non-zero; the report is on standard output only
\* after a successful analysis, it is there before the summary is on the
\* diagnostic stream, and exit status 0 means both were written.
C20_FatalFailureWritesNothing ==
    /\ AnalysisEndedFatally =>
          /\ cli.stdout = <<>>
          /\ cli.exit # 0
          /\ cli.pc = "exited" => cli.exit > 0
    /\ ReportWritten => (pc = "done" /\ result.returned /\ result.err = "")
    /\ SummaryWritten => ReportWritten
    /\ cli.exit = 0 => (ReportWritten /\ SummaryWritten /\ result.err = "")

\* main has exited after a failed analysis with a failure line on the
\* diagnostic stream
C20_Witness ==
    /\ AnalysisEndedFatally
    /\ cli.pc = "exited"
    /\ cli.stderr[Len(cli.stderr)] = Written("fatal", "Analysis failed")

\* ------------------------------------------------------- a file added between two runs
\* The kinds of file added to the directory of a package: a file that only
\* holds the package clause, a file that declares a struct type Z with a
\* method m, and a _test.go file that only holds the package clause.  None
\* defines an abstraction or makes a call.
AddedKinds == {"plain", "type", "test"}

AddedFile(path, kind) ==
    File(ModuleDir, path \o (IF kind = "test" THEN "/extra_test.go" ELSE "/extra.go"))

\* the declarations go/types adds to the scope of pkg for the added file
AddedDecls(pkg, kind) ==
    IF kind = "type"
    THEN << Decl("Z", pkg.ID \o ".Z", "struct", "", {"m"}, {}, "ast", TRUE,
                 AddedFile(pkg.PkgPath, kind), 3) >>
    ELSE <<>>

\* the package as loaded once the file lies in its directory
WithFile(pkg, kind) ==
    [pkg EXCEPT !.GoFiles = Append(@, AddedFile(pkg.PkgPath, kind)),
                !.scope = @ \o AddedDecls(pkg, kind)]

\* the loader is configured with Tests: true: a package with a test file is
\* also listed as built for its tests (own type objects) ...
TestVariant(pkg, kind) ==
    [WithFile(pkg, kind) EXCEPT
        !.ID = pkg.PkgPath \o " [" \o pkg.PkgPath \o ".test]",
        !.scope = [j \in DOMAIN pkg.scope |->
                     [pkg.scope[j] EXCEPT
                        !.tid = "t:" \o @,
                        !.alias = IF @ = "" THEN "" ELSE "t:" \o @]]]

\* ... and with its generated test main package
TestMain(pkg) ==
    [ID |-> pkg.PkgPath \o ".test", PkgPath |-> pkg.PkgPath \o ".test",
     Name |-> "main", Types |-> TRUE, Syntax |-> TRUE, Errors |-> FALSE,
     GoFiles |-> <<File(CacheDir, pkg.PkgPath \o "/_testmain.go")>>,
     EmbedFiles |-> <<>>, EmbedPatterns |-> <<>>, Imports |-> {pkg.PkgPath},
     scope |-> <<>>, locals |-> <<>>,
     funcs |-> << Func(pkg.PkgPath \o ".test.main",
                       File(CacheDir, pkg.PkgPath \o "/_testmain.go"),
                       << Instr("Call", FALSE, TRUE, TRUE, TRUE, 30) >>) >>]

\* what packages.Load yields once a file of the kind lies in the directory of
\* package i of the list
TreeWith(raw, i, kind) ==
    LET path == raw[i].PkgPath
        hasVariant == \E j \in DOMAIN raw : raw[j].PkgPath = path /\ raw[j].ID # path
    IN IF kind # "test"
       THEN [j \in DOMAIN raw |->
               IF raw[j].PkgPath = path THEN WithFile(raw[j], kind) ELSE raw[j]]
       ELSE IF hasVariant
       THEN [j \in DOMAIN raw |->
               IF raw[j].PkgPath = path /\ raw[j].ID # path
               THEN WithFile(raw[j], kind) ELSE raw[j]]
       ELSE raw \o <<TestVariant(raw[i], kind)>>
                \o (IF \E j \in DOMAIN raw : raw[j].PkgPath = path \o ".test"
                    THEN <<>> ELSE <<TestMain(raw[i])>>)

\* the file is added to the directory of a package of the tree, then
\* AnalyzeProject is called again
AddFileAndRunAgain ==
    /\ pc = "done"
    /\ run = 1
    /\ unit = NoUnit
    /\ \E i \in DOMAIN snapshot :
       \E kind \in AddedKinds :
         /\ snapshot[i].Types
         /\ snapshot[i].Name # "main"
         /\ snapshot[i].ID = snapshot[i].PkgPath
         /\ snapshot' = TreeWith(snapshot, i, kind)
         /\ unit' = [kind |-> "added", path |-> snapshot[i].PkgPath, file |-> kind]
    /\ run' = run + 1
    /\ pc' = "load"
    /\ firstReport' = result
    /\ pkgs' = <<>>
    /\ interfacesMap' = EmptyMap
    /\ callsByPackage' = EmptyMap
    /\ ssaFset' = NilFset
    /\ fsetPassed' = NilFset
    /\ invoked' = <<>>
    /\ result' = NoResult
    /\ UNCHANGED <<aliasMaterialised, outcomes, finderCalls, cli>>

NextAdded ==
    DoLoad \/ DoInterfaces \/ DoCalls \/ DoFind \/ DoAssemble \/ AddFileAndRunAgain

SpecAdded == Init /\ [][NextAdded]_vars

\* what a report says, whatever order its maps were iterated in; the Files
\* list of a package is kept unless the package lies at path
AbstractionContent(iface) ==
    [Name |-> iface.Name, PackagePath |-> iface.PackagePath,
     Location |-> iface.Location, Methods |-> iface.Methods,
     Embeds |-> iface.Embeds, Implementations |-> Range(iface.Implementations)]

PackageContent(pa, path) ==
    [Name |-> pa.Name, Path |-> pa.Path,
     Files |-> IF pa.Path = path THEN <<>> ELSE pa.Files,
     Imports |-> Range(pa.Imports),
     Interfaces |-> {AbstractionContent(pa.Interfaces[n]) : n \in DOMAIN pa.Interfaces},
     Calls |-> Range(pa.Calls)]

ReportContent(report, path) ==
    [p \in DOMAIN report.Packages |-> PackageContent(report.Packages[p], path)]

\* C21: when a file that defines no abstractions and makes no calls is added,
\* the report of the second run equals the report of the first except for the
\* Files list of the package that contains the added file.
C21_AddedFileChangesOnlyFiles ==
    (/\ pc = "done" /\ run = 2 /\ unit # NoUnit
     /\ result.err = "" /\ firstReport.err = "") =>
        ReportContent(result.report, unit.path)
            = ReportContent(firstReport.report, unit.path)

\* ------------------------------------------------------- the call extractor on one function
\* The shapes a call-shaped instruction can have: a static callee is known
\* only for a non-invoke call with a value.  The kind "Other" is a
\* CallInstruction of a type the switch does not name.
InstrKinds == {"Call", "Go", "Defer", "Other"}
InstrLines == {10, 11}

InstrShapes ==
    {Instr(k, inv, st, val, ok, IF ok THEN l ELSE 0) :
        k \in InstrKinds, inv \in BOOLEAN, st \in BOOLEAN, val \in BOOLEAN,
        ok \in BOOLEAN, l \in InstrLines}

Instrs ==
    {x \in InstrShapes : x.static => (~x.invoke /\ x.value)}

\* the functions handed to the extractor: the instructions of the blocks of a
\* body in block order; the builder does not lay blocks out in source order
\* (the condition of a loop lies in a later block than its body)
FuncInputs ==
    {[kind |-> "func", instrs |-> is] : is \in ListsUpTo(Instrs, MaxInstrs) \ {<<>>}}

InitCalls ==
    /\ snapshot = <<>>
    /\ aliasMaterialised = FALSE
    /\ run = 1
    /\ pc = "calls-of-func"
    /\ pkgs = <<>>
    /\ interfacesMap = EmptyMap
    /\ callsByPackage = EmptyMap
    /\ ssaFset = NilFset
    /\ fsetPassed = NilFset
    /\ invoked = <<>>
    /\ outcomes = NoOutcomes
    /\ result = NoResult
    /\ firstReport = NoResult
    /\ finderCalls = 0
    /\ unit \in FuncInputs
    /\ cli = NotStarted

\* the loop of AnalyzeCalls over the blocks and instructions of one function
CallCallsOfFunc ==
    /\ pc = "calls-of-func"
    /\ unit.kind = "func"
    /\ unit' = [kind |-> "calls", instrs |-> unit.instrs,
                sites |-> CallsOfFunc([pkg |-> 1,
                                       fn |-> Func("p.h", FileA, unit.instrs)])]
    /\ UNCHANGED <<snapshot, aliasMaterialised, run, pc, pkgs, interfacesMap,
                   callsByPackage, ssaFset, fsetPassed, invoked, outcomes,
                   result, firstReport, finderCalls, cli>>

NextCalls == CallCallsOfFunc

SpecCalls == InitCalls /\ [][NextCalls]_vars

\* the flavour the specification names for an instruction of a handled kind
\* (Concurrent-Spawn is rendered "Go", Deferred is rendered "Defer")
ExpectedFlavour(instr) ==
    CASE instr.kind = "Go" -> "Go"
      [] instr.kind = "Defer" -> "Defer"
      [] instr.kind = "Call" /\ instr.invoke -> "Interface"
      [] instr.kind = "Call" /\ ~instr.invoke /\ instr.static -> "Static"
      [] OTHER -> "?"

\* C22: for a function whose call-shaped instructions (calls, go, defer) have
\* valid positions, one call site is emitted per instruction, in instruction
\* order which is source order, all with the same caller-display; a plain call
\* with a static callee is Static, a call through an abstraction is Interface,
\* go is Concurrent-Spawn and defer is Deferred.
C22_OneSitePerInstruction ==
    (/\ unit.kind = "calls"
     /\ \A n \in DOMAIN unit.instrs :
            unit.instrs[n].posOK /\ IsHandled(unit.instrs[n])) =>
        /\ Len(unit.sites) = Len(unit.instrs)
        /\ \A n \in DOMAIN unit.sites :
             /\ unit.sites[n].Location.Line = unit.instrs[n].line
             /\ unit.sites[n].CallerFuncDesc = unit.sites[1].CallerFuncDesc
             /\ ExpectedFlavour(unit.instrs[n]) # "?" =>
                    unit.sites[n].CallType = ExpectedFlavour(unit.instrs[n])
        /\ \A m, n \in DOMAIN unit.sites :
             m < n => unit.sites[m].Location.Line <= unit.sites[n].Location.Line

\* ------------------------------------------------------- the abstraction extractor, called directly
\* A package t with one file.  Its type-specs are chosen among a top-level
\* interface I, interfaces named I declared in the bodies of a function above
\* and of a function below it, and two interfaces named L declared in the
\* bodies of two functions.  Type-specs of one name differ in their methods.
FileT == File(ModuleDir, "t/t.go")
FieldN == Field(<<"n">>, FuncType(FieldList(<<>>), NilFieldList))

TopLevelI ==
    WithFields(Decl("I", "t.I", "interface", "", {"m"}, {}, "ast", TRUE, FileT, 5),
               <<FieldM>>)
NestedSpecs ==
    << WithFields(Decl("I", "t.f.I", "interface", "", {"n"}, {}, "ast", TRUE, FileT, 2),
                  <<FieldN>>),
       WithFields(Decl("L", "t.f.L", "interface", "", {"m"}, {}, "ast", TRUE, FileT, 3),
                  <<FieldM>>),
       WithFields(Decl("L", "t.g.L", "interface", "", {"n"}, {}, "ast", TRUE, FileT, 8),
                  <<FieldN>>),
       WithFields(Decl("I", "t.g.I", "interface", "", {"m", "n"}, {}, "ast", TRUE, FileT, 9),
                  <<FieldM, FieldN>>) >>

PkgT(top, nested) ==
    [ID |-> "t", PkgPath |-> "t", Name |-> "t", Types |-> TRUE, Syntax |-> TRUE,
     Errors |-> FALSE, GoFiles |-> <<FileT>>,
     EmbedFiles |-> <<>>, EmbedPatterns |-> <<>>, Imports |-> {},
     scope |-> top,
     locals |-> SelectSeq(NestedSpecs, LAMBDA d : d \in nested),
     funcs |-> <<>>]

ExtractorInputs ==
    ListsUpTo({PkgT(top, nested) : top \in {<<>>, <<TopLevelI>>},
                                   nested \in SUBSET Range(NestedSpecs)},
              MaxPkgs) \ {<<>>}

InitInterfaces ==
    /\ snapshot \in ExtractorInputs
    /\ aliasMaterialised = FALSE
    /\ run = 1
    /\ pc = "extractor"
    /\ pkgs = snapshot
    /\ interfacesMap = EmptyMap
    /\ callsByPackage = EmptyMap
    /\ ssaFset = NilFset
    /\ fsetPassed = NilFset
    /\ invoked = <<>>
    /\ outcomes = NoOutcomes
    /\ result = NoResult
    /\ firstReport = NoResult
    /\ finderCalls = 0
    /\ unit = NoUnit
    /\ cli = NotStarted

\* interfaces, err := AnalyzeInterfaces(pkgs)
CallAnalyzeInterfaces ==
    /\ pc = "extractor"
    /\ invoked = <<>>
    /\ interfacesMap' = AnalyzeInterfaces(pkgs)
    /\ invoked' = <<"A">>
    /\ UNCHANGED <<snapshot, aliasMaterialised, run, pc, pkgs, callsByPackage,
                   ssaFset, fsetPassed, outcomes, result, firstReport,
                   finderCalls, unit, cli>>

NextInterfaces == CallAnalyzeInterfaces

SpecInterfaces == InitInterfaces /\ [][NextInterfaces]_vars

\* every type-spec of the list that defines an abstraction, paired with its
\* package, in module-list / file / traversal order
Encountered(ps) ==
    Flatten([i \in DOMAIN ps |->
               [n \in DOMAIN InterfaceSpecs(ps[i]) |->
                  [pkg |-> ps[i], d |-> InterfaceSpecs(ps[i])[n]]]])

\* C23: every key of the map AnalyzeInterfaces returns equals the entry's
\* PackagePath + "." + Name, and the entry of a key is the one built for the
\* first type-spec encountered with that key; a later one never overwrites it.
C23_FirstEntryKept ==
    invoked = <<"A">> =>
        LET es == Encountered(pkgs)
        IN /\ \A k \in DOMAIN interfacesMap :
                 k = interfacesMap[k].PackagePath \o "." \o interfacesMap[k].Name
           /\ \A n \in DOMAIN es :
                 LET k == es[n].pkg.PkgPath \o "." \o es[n].d.name
                 IN (\A m \in 1..(n - 1) :
                        es[m].pkg.PkgPath \o "." \o es[m].d.name # k) =>
                    /\ k \in DOMAIN interfacesMap
                    /\ interfacesMap[k].Location.Line = es[n].d.line
                    /\ interfacesMap[k].Methods
                         = ExtractMethods(es[n].d.fields, TRUE, es[n].d.file, es[n].d.line)

\* three type-specs named I were encountered, with different methods, and the
\* map holds an entry for t.I
C23_Witness ==
    /\ invoked = <<"A">>
    /\ "t.I" \in DOMAIN interfacesMap
    /\ Cardinality({n \in DOMAIN Encountered(pkgs) :
                       Encountered(pkgs)[n].d.name = "I"}) >= 3
    /\ \E m, n \in DOMAIN Encountered(pkgs) :
         /\ Encountered(pkgs)[m].d.name = "I" /\ Encountered(pkgs)[n].d.name = "I"
         /\ Encountered(pkgs)[m].d.fields # Encountered(pkgs)[n].d.fields

\* C24: only top-level type-specs yield abstractions: every entry of the map
\* was built for a type-spec of the package scope, so a type-spec nested in a
\* function body is never emitted and never holds the key of a top-level one.
C24_OnlyTopLevelSpecs ==
    invoked = <<"A">> =>
        \A k \in DOMAIN interfacesMap :
            \E i \in DOMAIN pkgs :
            \E j \in DOMAIN pkgs[i].scope :
                /\ k = pkgs[i].PkgPath \o "." \o pkgs[i].scope[j].name
                /\ interfacesMap[k].Location.Line = pkgs[i].scope[j].line

\* C25: satisfier enumeration is complete: for every type name T of the scope
\* of a package with type information and every mapped abstraction A, if T
\* (resp. *T) satisfies A and the position of T can be resolved, the list of A
\* holds T with IsPointer=false (resp. true), also when T denotes a type that
\* another name denotes.
C25_EnumerationComplete ==
    FinderDone =>
        \A k \in MappedKeys(pkgs, interfacesMap) :
        \A i \in DOMAIN pkgs : \A j \in DOMAIN pkgs[i].scope :
        \A isPointer \in BOOLEAN :
            (/\ pkgs[i].Types
             /\ ResolveLocation(pkgs[i].scope[j], pkgs[i], fsetPassed) # NoLocation
             /\ Implements(pkgs[i].scope[j], isPointer,
                           MappedMethods(pkgs, interfacesMap[k])))
                => HasSatisfier(interfacesMap[k], pkgs[i].scope[j].name,
                                pkgs[i].PkgPath, isPointer)

\* a valid position for the type name: with a position table P handed over,
\* through the type-spec found in the syntax trees or through the declaration
\* position; without P, through the package's own table
CanBeLocated(d, fset) ==
    IF fset # NilFset THEN d.pos \in {"ast", "decl"} ELSE d.native

\* C26: no satisfier is emitted without a position: every satisfier the
\* finder recorded has a non-empty filename and stands for a type name whose
\* position one of the three lookups yields; a type name for which none does
\* is skipped.
C26_NoSatisfierWithoutPosition ==
    \A k \in MappedKeys(pkgs, interfacesMap) :
    \A n \in DOMAIN interfacesMap[k].Implementations :
        LET s == interfacesMap[k].Implementations[n]
        IN /\ s.Location.Filename # EmptyFilename
           /\ \E i \in DOMAIN pkgs : \E j \in DOMAIN pkgs[i].scope :
                /\ pkgs[i].PkgPath = s.PackagePath
                /\ pkgs[i].scope[j].name = s.TypeName
                /\ CanBeLocated(pkgs[i].scope[j], ssaFset)

\* the finder ran without a position table P; V, located through the
\* package's own table, is recorded for p.I and W, which satisfies p.I but has
\* no valid position, is not
C26_Witness ==
    /\ finderCalls >= 1
    /\ ssaFset = NilFset
    /\ "p.I" \in MappedKeys(pkgs, interfacesMap)
    /\ HasSatisfier(interfacesMap["p.I"], "V", "q", FALSE)
    /\ ~HasSatisfier(interfacesMap["p.I"], "W", "q", FALSE)
    /\ \E i \in DOMAIN pkgs : \E j \in DOMAIN pkgs[i].scope :
         /\ pkgs[i].scope[j].name = "W"
         /\ Implements(pkgs[i].scope[j], FALSE, MappedMethods(pkgs, interfacesMap["p.I"]))

\* a function all of whose instructions are emitted: the sites then stand
\* one for one beside the instructions
AllEmitted(is) == \A n \in DOMAIN is : is[n].posOK /\ IsHandled(is[n])

C29_CallSitesUnderCallersPackage ==
    \A i \in DOMAIN callsByPackage :
        /\ i \in DOMAIN pkgs
        /\ \A n \in DOMAIN callsByPackage[i] :
             LET c == callsByPackage[i][n]
             IN /\ c.CallerFuncDesc # DepFunc.fn.name
                /\ \E j \in DOMAIN pkgs :
                     /\ pkgs[j].Types
                     /\ pkgs[j].PkgPath = pkgs[i].PkgPath
                     /\ \E f \in Range(pkgs[j].funcs) :
                          /\ f.name = c.CallerFuncDesc
                          /\ f.file = c.Location.Filename

\* a listed package without a lowered package stands before a package whose
\* functions make calls, and the universe holds a function outside the list
C29_Witness ==
    /\ DepFunc \in AllFunctions(pkgs)
    /\ \E i, j \in DOMAIN pkgs :
         /\ i < j
         /\ ~pkgs[i].Types
         /\ j \in DOMAIN callsByPackage
         /\ callsByPackage[j] # <<>>

\* ------------------------------------------------------- loader path
\* A path is the sequence of its characters; filepath.Separator on the
\* platforms the tool is built for
Separator == "/"
PathChars == {Separator, ".", "a"}
Paths == ListsUpTo(PathChars, MaxPathLen)

HasSuffix(s, suffix) ==
    /\ Len(s) >= Len(suffix)
    /\ SubSeq(s, Len(s) - Len(suffix) + 1, Len(s)) = suffix

\* normalizedPath left as the path was given
NormalizedPathUnstripped(path) == path

\* normalizedPath: the path without a trailing separator
NormalizedPath(path) ==
    IF Len(path) > 0 /\ path[Len(path)] = Separator
    THEN SubSeq(path, 1, Len(path) - 1)
    ELSE path

\* recursiveSuffix := string(filepath.Separator) + "..."
RecursiveSuffix == <<Separator, ".", ".", ".">>

\* cfg.Dir and the pattern handed to packages.Load
LoadConfig(path) ==
    LET pattern == NormalizedPath(path)
    IN IF HasSuffix(pattern, RecursiveSuffix)
       THEN [Dir |-> SubSeq(pattern, 1, Len(pattern) - Len(RecursiveSuffix)),
             pattern |-> <<".">> \o RecursiveSuffix]
       ELSE [Dir |-> pattern, pattern |-> pattern]

InitLoadPath ==
    /\ snapshot \in {<<>>, <<PkgP>>, <<PkgR>>}
    /\ aliasMaterialised = FALSE
    /\ run = 1
    /\ pc = "load-path"
    /\ pkgs = <<>>
    /\ interfacesMap = EmptyMap
    /\ callsByPackage = EmptyMap
    /\ ssaFset = NilFset
    /\ fsetPassed = NilFset
    /\ invoked = <<>>
    /\ outcomes = NoOutcomes
    /\ result = NoResult
    /\ firstReport = NoResult
    /\ finderCalls = 0
    /\ unit \in {[kind |-> "path", path |-> p] : p \in Paths}
    /\ cli = NotStarted

\* GoPackagesLoader.Load(path): the configuration is set from the path, then
\* packages.Load answers and its packages are filtered
CallLoad ==
    /\ pc = "load-path"
    /\ unit.kind = "path"
    /\ \E loadErr \in BOOLEAN :
         LET cfg == LoadConfig(unit.path)
             r == Load(snapshot, loadErr)
         IN /\ unit' = [kind |-> "loaded", path |-> unit.path,
                        Dir |-> cfg.Dir, pattern |-> cfg.pattern, err |-> r.err]
            /\ pkgs' = r.pkgs
    /\ UNCHANGED <<snapshot, aliasMaterialised, run, pc, interfacesMap,
                   callsByPackage, ssaFset, fsetPassed, invoked, outcomes,
                   result, firstReport, finderCalls, cli>>

NextLoadPath == CallLoad

SpecLoadPath == InitLoadPath /\ [][NextLoadPath]_vars

====
